---- MODULE Spec2Model ----
(***************************************************************************)
(* The pay-per-access provider of src/uagentdemo/merchant.py as a state    *)
(* machine: the record store (ctx.storage), the message the provider sent   *)
(* last, and the handle_payment_proof coroutine suspended at an await.      *)
(*                                                                         *)
(* Atomicity follows asyncio: a handler runs without interruption up to    *)
(* its next suspension.  The Solana RPC client is synchronous, so the      *)
(* checks, the broadcast and the first status poll of a proof are one      *)
(* step; every asyncio.sleep(1) of the poll loop is a suspension, and so   *)
(* are the awaits of the x402 verify_payment / settle_payment calls.       *)
(* The ledger and the x402 facilitator are external: each of their answers *)
(* is a nondeterministic choice.  The agent runtime takes one message at a *)
(* time from its queue and awaits the handler before it takes the next, so *)
(* at most one handler coroutine exists at any time; a message that arrives*)
(* meanwhile is handled after the running handler has ended.               *)
(* handle_health_check, the startup greeting and periodic_status read the  *)
(* store at most and write none of the state below: they have no action.   *)
(***************************************************************************)
EXTENDS Integers, Sequences, FiniteSets, TLC

VARIABLES
    storage,         \* ctx.storage "payment_<id>" entries: payment id -> record
    issued,          \* the payment ids uuid4 has produced so far
    total_payments,  \* ctx.storage "total_payments"
    total_accesses,  \* ctx.storage "total_accesses"
    task,            \* the suspended handle_payment_proof coroutine, or NoTask
    sent,            \* the message the provider passed to ctx.send last, or NoMessage
    accesses,        \* payment id -> number of ResourceAccess messages sent
    verifications,   \* payment id -> number of verify_and_settle_payment calls
    nRequests,       \* ResourceRequest messages delivered so far
    nProofs,         \* PaymentProof messages delivered so far
    signing,         \* the client's call of create_signed_solana_transaction
    client,          \* the requester agent of src/client.py: its store and its sends
    proxy,           \* the forwarding agent of src/agentverse-proxy.py
    verifier         \* one call of _verify_and_settle_solana and its RPC calls

vars == <<storage, issued, total_payments, total_accesses, task, sent,
          accesses, verifications, nRequests, nProofs, signing, client, proxy,
                   verifier>>

-----------------------------------------------------------------------------
(* Bounds of the model *)

MaxRequests == 2
MaxProofs == 2

(* Program constants *)

max_attempts == 60

-----------------------------------------------------------------------------
(* Domains of the inputs *)

Agents == {"agent_a", "agent_b"}

PaymentIds == 1..(MaxRequests + 1)

CatalogIds == {"premium_weather", "premium_data", "premium_api"}

(* The identifiers that messages name: a resource priced in dollars, the one *)
(* priced in tokens, and one that is not in the catalog.                     *)
ResourceIds == {"premium_weather", "premium_data", "no_such_resource"}

SolanaNetworks == {"solana-devnet", "solana-mainnet", "solana-testnet"}

Networks == SolanaNetworks \cup {"base-sepolia"}

Transactions == {"tx1", "tx2", "not-base58"}

NoTask == [pc |-> "none"]

NoSigning == [phase |-> "none"]

NoClient == [phase |-> "none"]

NoProxy == [phase |-> "none"]

NoVerifier == [pc |-> "none"]

NoMessage ==
    [type |-> "none", to |-> "", payment_id |-> 0, resource_id |-> "",
     error |-> "", body |-> [message |-> <<>>]]

NoPayment == 0

merchant_address == "merchant_wallet"

network == "solana-devnet"

facilitator_service == TRUE

-----------------------------------------------------------------------------
(* Helpers *)

(* datetime.now() in a handler: logical time, the ordinal of the message the *)
(* handler is handling (the messages taken from the queue so far, this one   *)
(* included).                                                               *)
now == nRequests' + nProofs'

Put(store, key, value) ==
    [k \in (DOMAIN store) \cup {key} |-> IF k = key THEN value ELSE store[k]]

Bump(counter, key) == [counter EXCEPT ![key] = @ + 1]

(* PayAIFacilitatorService.get_price_for_resource: the static catalog.  The *)
(* call raises ValueError for an identifier that is not a key of the table. *)
ValueError ==
    [raised |-> TRUE, price |-> "", description |-> "", token |-> FALSE]

get_price_for_resource_or_default(resource_id) ==
    CASE resource_id = "premium_data" ->
            [raised |-> FALSE, price |-> "TokenAmount(10000)",
             description |-> "Premium analytics data", token |-> TRUE]
      [] resource_id = "premium_api" ->
            [raised |-> FALSE, price |-> "$0.005",
             description |-> "Premium API access", token |-> FALSE]
      [] OTHER ->
            [raised |-> FALSE, price |-> "$0.001",
             description |-> "Real-time premium weather data", token |-> FALSE]

get_price_for_resource(resource_id) ==
    CASE resource_id = "premium_weather" ->
            [raised |-> FALSE, price |-> "$0.001",
             description |-> "Real-time premium weather data", token |-> FALSE]
      [] resource_id = "premium_data" ->
            [raised |-> FALSE, price |-> "TokenAmount(10000)",
             description |-> "Premium analytics data", token |-> TRUE]
      [] resource_id = "premium_api" ->
            [raised |-> FALSE, price |-> "$0.005",
             description |-> "Premium API access", token |-> FALSE]
      [] OTHER -> ValueError

(* get_premium_resource: the gated payload, built anew at every call (its   *)
(* timestamp and api_key are generated by the call).                        *)
get_premium_resource(resource_id, timestamp) ==
    [resource_id |-> resource_id, premium |-> TRUE, generated_at |-> timestamp]

(* uuid.uuid4(): a value it has not returned before.  Payment ids are only  *)
(* ever compared for equality, so which unused value comes back makes no     *)
(* difference: the model takes the least one.                               *)
uuid4Colliding == PaymentIds

uuid4 ==
    {CHOOSE p \in PaymentIds \ issued : \A q \in PaymentIds \ issued : p <= q}

(* The three message types the provider sends.  The text of a message is a  *)
(* sequence of strings: the parts an f-string joins.                        *)
PaymentRequiredMsg(to, resource_id, payment_id) ==
    [type |-> "PaymentRequired", to |-> to, payment_id |-> payment_id,
     resource_id |-> resource_id, error |-> "",
     body |-> [price |-> IF get_price_for_resource(resource_id).token
                         THEN "0.01 USDC"
                         ELSE get_price_for_resource(resource_id).price,
               pay_to_address |-> merchant_address,
               network |-> network,
               token |-> get_price_for_resource(resource_id).token]]

ResourceErrorMsg(to, resource_id, payment_id, error, message) ==
    [type |-> "ResourceError", to |-> to, payment_id |-> payment_id,
     resource_id |-> resource_id, error |-> error,
     body |-> [message |-> message]]

ResourceAccessMsg(to, resource_id, payment_id, resource_data) ==
    [type |-> "ResourceAccess", to |-> to, payment_id |-> payment_id,
     resource_id |-> resource_id, error |-> "",
     body |-> [resource_data |-> resource_data]]

-----------------------------------------------------------------------------
(* State after construction: an empty store, nothing sent, no coroutine. *)

Init ==
    /\ storage = [k \in {} |-> NoTask]
    /\ issued = {}
    /\ total_payments = 0
    /\ total_accesses = 0
    /\ task = NoTask
    /\ sent = NoMessage
    /\ accesses = [p \in PaymentIds |-> 0]
    /\ verifications = [p \in PaymentIds |-> 0]
    /\ nRequests = 0
    /\ nProofs = 0
    /\ signing = NoSigning
    /\ client = NoClient
    /\ proxy = NoProxy
    /\ verifier = NoVerifier

-----------------------------------------------------------------------------
(* handle_resource_request *)

NewPaymentRecordWithoutRequester(sender, resource_id, timestamp) ==
    [resource_id |-> resource_id,
     requester |-> "",
     created_at |-> timestamp,
     price |-> get_price_for_resource(resource_id).price,
     status |-> "pending",
     error |-> "",
     verified_at |-> -1,
     transaction_hash |-> ""]

NewPaymentRecord(sender, resource_id, timestamp) ==
    [resource_id |-> resource_id,
     requester |-> sender,
     created_at |-> timestamp,
     price |-> get_price_for_resource(resource_id).price,
     status |-> "pending",
     error |-> "",
     verified_at |-> -1,
     transaction_hash |-> ""]

HandleResourceRequest(sender, resource_id) ==
    /\ nRequests < MaxRequests
    /\ task = NoTask
    /\ nRequests' = nRequests + 1
    /\ UNCHANGED <<total_payments, total_accesses, task, accesses,
                   verifications, nProofs, signing, client, proxy,
                   verifier>>
    /\ IF ~facilitator_service
       THEN /\ sent' = ResourceErrorMsg(sender, resource_id, NoPayment,
                                     "Facilitator not configured",
                                     <<"Payment system is not available">>)
            /\ UNCHANGED <<storage, issued>>
       ELSE IF get_price_for_resource(resource_id).raised
       THEN /\ sent' = ResourceErrorMsg(sender, resource_id, NoPayment,
                                     "Resource not found",
                                     <<"Unknown resource: ", resource_id>>)
            /\ UNCHANGED <<storage, issued>>
       ELSE \E payment_id \in uuid4 :
            /\ issued' = issued \cup {payment_id}
            /\ storage' = Put(storage, payment_id,
                              NewPaymentRecord(sender, resource_id, now))
            /\ sent' = PaymentRequiredMsg(sender, resource_id, payment_id)

-----------------------------------------------------------------------------
(* PayAIFacilitatorService.verify_and_settle_payment and its two branches *)

Proofs ==
    [payment_id : PaymentIds, resource_id : ResourceIds,
     transaction_hash : Transactions, network : Networks]

(* The result dictionaries.  done = FALSE stands for "no result yet": the   *)
(* poll loop goes on to its sleep.                                          *)
Failure(error) ==
    [done |-> TRUE, success |-> FALSE, verified |-> FALSE, error |-> error,
     transaction_signature |-> ""]

FailureWithSignature(error, tx_signature) ==
    [done |-> TRUE, success |-> FALSE, verified |-> FALSE, error |-> error,
     transaction_signature |-> tx_signature]

Success(tx_signature) ==
    [done |-> TRUE, success |-> TRUE, verified |-> TRUE, error |-> "",
     transaction_signature |-> tx_signature]

NoResultYet ==
    [done |-> FALSE, success |-> FALSE, verified |-> FALSE, error |-> "",
     transaction_signature |-> ""]

(* payment_proof.network.startswith("solana") *)
is_solana(proof) == proof.network \in SolanaNetworks

(* base58.b58decode succeeds on the signed transactions only. *)
b58decodeOk(transaction_hash) == transaction_hash \in {"tx1", "tx2"}

(* str(send_response.value): the signature the ledger returns for a transaction *)
SignatureOf(transaction_hash) == <<"sig", transaction_hash>>

(* What _verify_and_settle_solana returns before any ledger call, "" if it goes on *)
SolanaPrecheck(proof) ==
    IF proof.network \notin {"solana-devnet", "solana-mainnet"}
    THEN "Unsupported Solana network"
    ELSE IF ~b58decodeOk(proof.transaction_hash)
    THEN "Invalid transaction format"
    ELSE ""

(* rpc_client.send_raw_transaction: a response with a value, a response with *)
(* an error, a response with neither, or an exception.                       *)
SendResponses == {"value", "error", "neither", "exception"}

BroadcastResultErrorNotChecked(send_response) ==
    CASE send_response = "neither" -> Failure("Failed to broadcast transaction")
      [] send_response = "exception" -> Failure("Transaction broadcast failed")
      [] OTHER -> NoResultYet

BroadcastResult(send_response) ==
    CASE send_response = "error" -> Failure("Transaction rejected by network")
      [] send_response = "neither" -> Failure("Failed to broadcast transaction")
      [] send_response = "exception" -> Failure("Transaction broadcast failed")
      [] OTHER -> NoResultYet

(* rpc_client.get_signature_statuses: no status, a status without a          *)
(* confirmation level, a confirmed status without error, a confirmed status  *)
(* with an error, or an exception.  rpc_client.get_transaction: the details  *)
(* or an exception.                                                          *)
StatusAnswers == {"none", "unconfirmed", "confirmed", "failed_on_chain", "exception"}

DetailAnswers == {"details", "exception"}

(* One pass of the body of the poll loop.  A confirmed status without error *)
(* is a success whether or not get_transaction then returns the details.    *)
PollOnceRequiresDetails(status, details, tx_signature) ==
    CASE status = "failed_on_chain" ->
            FailureWithSignature("Transaction failed on blockchain", tx_signature)
      [] status = "confirmed" /\ details = "details" -> Success(tx_signature)
      [] status = "confirmed" /\ details # "details" ->
            FailureWithSignature("Transaction failed on blockchain", tx_signature)
      [] OTHER -> NoResultYet

PollOnceIgnoresChainError(status, details, tx_signature) ==
    IF status = "confirmed" THEN Success(tx_signature) ELSE NoResultYet

PollOnceExceptionFails(status, details, tx_signature) ==
    CASE status = "failed_on_chain" ->
            FailureWithSignature("Transaction failed on blockchain", tx_signature)
      [] status = "confirmed" -> Success(tx_signature)
      [] status = "exception" -> Failure("Solana verification error")
      [] OTHER -> NoResultYet

PollOnceDropsReference(status, details, tx_signature) ==
    CASE status = "failed_on_chain" ->
            FailureWithSignature("Transaction failed on blockchain", tx_signature)
      [] status = "confirmed" /\ details = "details" -> Success(tx_signature)
      [] status = "confirmed" /\ details # "details" -> Success(<<>>)
      [] OTHER -> NoResultYet

PollOnce(status, details, tx_signature) ==
    CASE status = "failed_on_chain" ->
            FailureWithSignature("Transaction failed on blockchain", tx_signature)
      [] status = "confirmed" -> Success(tx_signature)
      [] OTHER -> NoResultYet

TimeoutResult(tx_signature) ==
    FailureWithSignature("Transaction confirmation timeout", tx_signature)

(* x402 verify_payment / settle_payment, awaited by _verify_and_settle_evm *)
VerifyAnswers == {"verified", "not_verified", "exception"}

SettleAnswers == {"settled", "not_settled", "exception"}

EvmVerifyResult(answer) ==
    CASE answer = "not_verified" -> Failure("Payment verification failed")
      [] answer = "exception" -> Failure("Payment verification error")
      [] OTHER -> NoResultYet

EvmSettleResult(answer) ==
    IF answer = "exception" THEN Failure("Payment verification error") ELSE Success("")

-----------------------------------------------------------------------------
(* handle_payment_proof *)

(* The checks before verification: the error of the ResourceError sent, or "" *)
ProofRejectionWithoutRequesterCheck(sender, proof) ==
    IF ~facilitator_service THEN "Facilitator not configured"
    ELSE IF proof.payment_id \notin DOMAIN storage THEN "Invalid payment ID"
    ELSE IF storage[proof.payment_id].resource_id # proof.resource_id THEN "Resource mismatch"
    ELSE ""

ProofRejection(sender, proof) ==
    IF ~facilitator_service THEN "Facilitator not configured"
    ELSE IF proof.payment_id \notin DOMAIN storage THEN "Invalid payment ID"
    ELSE IF storage[proof.payment_id].resource_id # proof.resource_id THEN "Resource mismatch"
    ELSE IF storage[proof.payment_id].requester # sender THEN "Requester mismatch"
    ELSE ""

RejectionMessage(error) ==
    CASE error = "Facilitator not configured" -> "Cannot verify payment"
      [] error = "Invalid payment ID" -> "Payment ID not found or expired"
      [] error = "Resource mismatch" -> "Payment does not match requested resource"
      [] OTHER -> "Payment proof must come from original requester"

(* The two updates of payment_data *)
CompletedRecordStatusNotSet(payment_data, transaction_hash, timestamp) ==
    [payment_data EXCEPT !.verified_at = timestamp,
                         !.transaction_hash = transaction_hash]

CompletedRecord(payment_data, transaction_hash, timestamp) ==
    [payment_data EXCEPT !.status = "completed",
                         !.verified_at = timestamp,
                         !.transaction_hash = transaction_hash]

FailedRecordWithoutPrice(payment_data, result) ==
    [payment_data EXCEPT !.status = "failed", !.error = result.error,
                         !.price = ""]

FailedRecord(payment_data, result) ==
    [payment_data EXCEPT !.status = "failed", !.error = result.error]

(* result["success"] and result.get("verified") *)
Granted(result) == result.success /\ result.verified

(* The handler from the return of verify_and_settle_payment to its end.      *)
(* payment_data is the dictionary the store holds (ctx.storage.get returns   *)
(* the stored object), so the update applies to the record as it is now.     *)
ConcludeCountsFailures(sender, payment_id, resource_id, transaction_hash, result) ==
    IF Granted(result)
    THEN /\ storage' = [storage EXCEPT ![payment_id] =
                            CompletedRecord(@, transaction_hash, now)]
         /\ total_payments' = total_payments + 1
         /\ total_accesses' = total_accesses + 1
         /\ sent' = ResourceAccessMsg(sender, resource_id, payment_id,
                                      get_premium_resource(resource_id, now))
         /\ accesses' = Bump(accesses, payment_id)
    ELSE /\ storage' = [storage EXCEPT ![payment_id] = FailedRecord(@, result)]
         /\ total_payments' = total_payments + 1
         /\ sent' = ResourceErrorMsg(sender, resource_id, payment_id,
                                     "Payment verification failed",
                                     <<result.error>>)
         /\ UNCHANGED <<total_accesses, accesses>>

ConcludeSilentOnFailure(sender, payment_id, resource_id, transaction_hash, result) ==
    IF Granted(result)
    THEN /\ storage' = [storage EXCEPT ![payment_id] =
                            CompletedRecord(@, transaction_hash, now)]
         /\ total_payments' = total_payments + 1
         /\ total_accesses' = total_accesses + 1
         /\ sent' = ResourceAccessMsg(sender, resource_id, payment_id,
                                      get_premium_resource(resource_id, now))
         /\ accesses' = Bump(accesses, payment_id)
    ELSE /\ storage' = [storage EXCEPT ![payment_id] = FailedRecord(@, result)]
         /\ UNCHANGED <<total_payments, total_accesses, accesses, sent>>

Conclude(sender, payment_id, resource_id, transaction_hash, result) ==
    IF Granted(result)
    THEN /\ storage' = [storage EXCEPT ![payment_id] =
                            CompletedRecord(@, transaction_hash, now)]
         /\ total_payments' = total_payments + 1
         /\ total_accesses' = total_accesses + 1
         /\ sent' = ResourceAccessMsg(sender, resource_id, payment_id,
                                      get_premium_resource(resource_id, now))
         /\ accesses' = Bump(accesses, payment_id)
    ELSE /\ storage' = [storage EXCEPT ![payment_id] = FailedRecord(@, result)]
         /\ sent' = ResourceErrorMsg(sender, resource_id, payment_id,
                                     "Payment verification failed",
                                     <<result.error>>)
         /\ UNCHANGED <<total_payments, total_accesses, accesses>>

Suspended(sender, proof, pc) ==
    [pc |-> pc, sender |-> sender, payment_id |-> proof.payment_id,
     resource_id |-> proof.resource_id,
     transaction_hash |-> proof.transaction_hash, attempt |-> 0]

(* The early returns of the handler: a ResourceError is sent, nothing else. *)
RejectAndFail(sender, proof, error) ==
    /\ sent' = ResourceErrorMsg(sender, proof.resource_id, proof.payment_id,
                                error, <<RejectionMessage(error)>>)
    /\ storage' = [p \in DOMAIN storage |->
                      IF p = proof.payment_id
                      THEN [storage[p] EXCEPT !.status = "failed", !.error = error]
                      ELSE storage[p]]
    /\ UNCHANGED <<total_payments, total_accesses, task, accesses, verifications>>

Reject(sender, proof, error) ==
    /\ sent' = ResourceErrorMsg(sender, proof.resource_id, proof.payment_id,
                                error, <<RejectionMessage(error)>>)
    /\ UNCHANGED <<storage, total_payments, total_accesses, task, accesses,
                   verifications>>

(* What the first run of the handler gets from verify_and_settle_payment:    *)
(* a result, or NoResultYet when the coroutine suspends.  send_response,     *)
(* status and details are the ledger's answers, read only as far as the code *)
(* gets.                                                                     *)
FirstResult(proof, send_response, status, details) ==
    IF ~is_solana(proof) THEN NoResultYet
    ELSE IF SolanaPrecheck(proof) # "" THEN Failure(SolanaPrecheck(proof))
    ELSE IF BroadcastResult(send_response).done THEN BroadcastResult(send_response)
    ELSE PollOnce(status, details, SignatureOf(proof.transaction_hash))

(* A PaymentProof is taken from the queue: the handler runs to its first     *)
(* suspension or to its end.                                                 *)
HandlePaymentProof(sender, proof, send_response, status, details) ==
    /\ nProofs < MaxProofs
    /\ task = NoTask
    /\ nProofs' = nProofs + 1
    /\ UNCHANGED <<issued, nRequests, signing, client, proxy,
                   verifier>>
    /\ IF ProofRejection(sender, proof) # ""
       THEN Reject(sender, proof, ProofRejection(sender, proof))
       ELSE /\ verifications' = Bump(verifications, proof.payment_id)
            /\ LET result == FirstResult(proof, send_response, status, details)
               IN  IF result.done
                   THEN /\ Conclude(sender, proof.payment_id, proof.resource_id,
                                    proof.transaction_hash, result)
                        /\ UNCHANGED task
                   ELSE /\ task' = Suspended(sender, proof,
                                       IF is_solana(proof) THEN "sleep" ELSE "evm_verify")
                        /\ UNCHANGED <<storage, total_payments, total_accesses,
                                       sent, accesses>>

(* asyncio.sleep(1) returns and the loop has another attempt left. *)
PollAgainUnbounded(status, details) ==
    /\ task.pc = "sleep"
    /\ UNCHANGED <<issued, verifications, nRequests, nProofs, signing, client, proxy,
                   verifier>>
    /\ LET result == PollOnce(status, details, SignatureOf(task.transaction_hash))
       IN  IF result.done
           THEN /\ Conclude(task.sender, task.payment_id, task.resource_id,
                            task.transaction_hash, result)
                /\ task' = NoTask
           ELSE /\ task' = [task EXCEPT !.attempt = @ + 1]
                /\ UNCHANGED <<storage, total_payments, total_accesses, sent,
                               accesses>>

PollAgain(status, details) ==
    /\ task.pc = "sleep"
    /\ task.attempt + 1 < max_attempts
    /\ UNCHANGED <<issued, verifications, nRequests, nProofs, signing, client, proxy,
                   verifier>>
    /\ LET result == PollOnce(status, details, SignatureOf(task.transaction_hash))
       IN  IF result.done
           THEN /\ Conclude(task.sender, task.payment_id, task.resource_id,
                            task.transaction_hash, result)
                /\ task' = NoTask
           ELSE /\ task' = [task EXCEPT !.attempt = @ + 1]
                /\ UNCHANGED <<storage, total_payments, total_accesses, sent,
                               accesses>>

(* asyncio.sleep(1) returns after the last attempt: the loop ends. *)
ConfirmationTimeout ==
    /\ task.pc = "sleep"
    /\ task.attempt + 1 >= max_attempts
    /\ UNCHANGED <<issued, verifications, nRequests, nProofs, signing, client, proxy,
                   verifier>>
    /\ Conclude(task.sender, task.payment_id, task.resource_id,
                task.transaction_hash,
                TimeoutResult(SignatureOf(task.transaction_hash)))
    /\ task' = NoTask

(* await verify_payment(...) returns or raises. *)
EvmVerifyReturns(answer) ==
    /\ task.pc = "evm_verify"
    /\ UNCHANGED <<issued, verifications, nRequests, nProofs, signing, client, proxy,
                   verifier>>
    /\ IF EvmVerifyResult(answer).done
       THEN /\ Conclude(task.sender, task.payment_id, task.resource_id,
                        task.transaction_hash, EvmVerifyResult(answer))
            /\ task' = NoTask
       ELSE /\ task' = [task EXCEPT !.pc = "evm_settle"]
            /\ UNCHANGED <<storage, total_payments, total_accesses, sent, accesses>>

(* await settle_payment(...) returns or raises. *)
EvmSettleReturns(answer) ==
    /\ task.pc = "evm_settle"
    /\ UNCHANGED <<issued, verifications, nRequests, nProofs, signing, client, proxy,
                   verifier>>
    /\ Conclude(task.sender, task.payment_id, task.resource_id,
                task.transaction_hash, EvmSettleResult(answer))
    /\ task' = NoTask

-----------------------------------------------------------------------------

(* The ledger answers a run of the handler reads: the broadcast response,    *)
(* the status when the broadcast was accepted, the transaction details when  *)
(* the status is a confirmation without error.  "unread" stands for an answer*)
(* the code does not ask for.                                                *)
PollAnswers ==
    {<<status, "unread">> : status \in StatusAnswers \ {"confirmed"}}
        \cup {<<"confirmed", details>> : details \in DetailAnswers}

LedgerAnswers ==
    {<<send_response, "unread", "unread">> : send_response \in SendResponses \ {"value"}}
        \cup {<<"value", answer[1], answer[2]>> : answer \in PollAnswers}

ReachesLedger(sender, proof) ==
    /\ ProofRejection(sender, proof) = ""
    /\ is_solana(proof)
    /\ SolanaPrecheck(proof) = ""

AnswersRead(sender, proof) ==
    IF ReachesLedger(sender, proof) THEN LedgerAnswers
    ELSE {<<"unread", "unread", "unread">>}

(* The runtime takes the next message from its queue when no handler runs. *)
Idle == task = NoTask

Next ==
    \/ /\ Idle
       /\ nRequests < MaxRequests
       /\ \E sender \in Agents, resource_id \in ResourceIds :
             HandleResourceRequest(sender, resource_id)
    \/ /\ Idle
       /\ nProofs < MaxProofs
       /\ \E sender \in Agents, proof \in Proofs :
             \E answer \in AnswersRead(sender, proof) :
                HandlePaymentProof(sender, proof, answer[1], answer[2], answer[3])
    \/ \E answer \in PollAnswers : PollAgain(answer[1], answer[2])
    \/ ConfirmationTimeout
    \/ \E answer \in VerifyAnswers : EvmVerifyReturns(answer)
    \/ \E answer \in SettleAnswers : EvmSettleReturns(answer)

Spec == Init /\ [][Next]_vars

(* The event loop resumes a coroutine whose asyncio.sleep(1) has elapsed. *)
SleepReturns ==
    \/ \E answer \in PollAnswers : PollAgain(answer[1], answer[2])
    \/ ConfirmationTimeout

(* An awaited x402 call returns or raises. *)
EvmReturns ==
    \/ \E answer \in VerifyAnswers : EvmVerifyReturns(answer)
    \/ \E answer \in SettleAnswers : EvmSettleReturns(answer)

FairSpec == Spec /\ WF_vars(SleepReturns) /\ WF_vars(EvmReturns)

-----------------------------------------------------------------------------
(* Properties *)

Terminal(record) == record.status \in {"completed", "failed"}

(* C1: once a record is completed or failed, no later step changes its      *)
(* status or any other of its fields.                                       *)
C1_TerminalRecordIsFrozen ==
    [][\A p \in DOMAIN storage :
          Terminal(storage[p]) => storage'[p] = storage[p]]_vars

C3_AtMostOneAccessPerPayment ==
    \A p \in PaymentIds : accesses[p] <= 1

(* C4: verification runs, and a verification reply goes out, only for a     *)
(* proof that came from the record's requester and names the record's       *)
(* resource.                                                                *)
C4_OnlyMatchingProofVerified ==
    /\ task # NoTask
          => /\ task.payment_id \in DOMAIN storage
             /\ task.sender = storage[task.payment_id].requester
             /\ task.resource_id = storage[task.payment_id].resource_id
    /\ (sent.type = "ResourceAccess"
          \/ (sent.type = "ResourceError" /\ sent.error = "Payment verification failed"))
          => /\ sent.payment_id \in DOMAIN storage
             /\ sent.to = storage[sent.payment_id].requester
             /\ sent.resource_id = storage[sent.payment_id].resource_id
    /\ \A p \in PaymentIds :
          (verifications[p] > 0 \/ accesses[p] > 0) => p \in DOMAIN storage

C4_Witness ==
    /\ sent.type = "ResourceError"
    /\ sent.error = "Requester mismatch"
    /\ sent.to # storage[sent.payment_id].requester
    /\ verifications[sent.payment_id] = 0
    /\ accesses[sent.payment_id] = 0

(* C5: a ResourceRequest that is answered with PaymentRequired gets a       *)
(* payment id that was never issued before, a new record is stored under    *)
(* that id, and every record that was in the store is still there, as it    *)
(* was; every request for a cataloged resource is answered that way.        *)
C5_FreshPaymentIdNewRecord ==
    [][nRequests' = nRequests + 1 =>
          /\ sent'.type = "PaymentRequired"
                => /\ sent'.payment_id \notin issued
                   /\ sent'.payment_id \notin DOMAIN storage
                   /\ issued' = issued \cup {sent'.payment_id}
                   /\ DOMAIN storage' = DOMAIN storage \cup {sent'.payment_id}
                   /\ storage'[sent'.payment_id] =
                         NewPaymentRecord(sent'.to, sent'.resource_id, now)
                   /\ \A p \in DOMAIN storage : storage'[p] = storage[p]
          /\ \A sender \in Agents, resource_id \in ResourceIds \cap CatalogIds :
                HandleResourceRequest(sender, resource_id)
                   => /\ sent'.type = "PaymentRequired"
                      /\ sent'.to = sender
                      /\ sent'.resource_id = resource_id]_vars

C5_Witness ==
    /\ sent.type = "PaymentRequired"
    /\ \E p \in DOMAIN storage :
          /\ p # sent.payment_id
          /\ storage[p].requester = storage[sent.payment_id].requester
          /\ storage[p].resource_id = storage[sent.payment_id].resource_id
          /\ storage[p].created_at < storage[sent.payment_id].created_at

(* C6: a ResourceRequest for an identifier that is not in the catalog is    *)
(* answered with the ResourceError "Resource not found"; no PaymentRequired *)
(* is sent, no payment id is issued and the record store is unchanged.      *)
C6_UnknownResourceNotFound ==
    [][nRequests' = nRequests + 1 =>
          \A sender \in Agents, resource_id \in ResourceIds \ CatalogIds :
             HandleResourceRequest(sender, resource_id)
                => /\ sent' = ResourceErrorMsg(sender, resource_id, NoPayment,
                                   "Resource not found",
                                   <<"Unknown resource: ", resource_id>>)
                   /\ storage' = storage
                   /\ issued' = issued]_vars

C6_Witness ==
    /\ sent.type = "ResourceError"
    /\ sent.error = "Resource not found"
    /\ sent.resource_id \notin CatalogIds
    /\ DOMAIN storage # {}
    /\ Cardinality(DOMAIN storage) < nRequests

RejectionErrors == {"Invalid payment ID", "Resource mismatch", "Requester mismatch"}

(* The rejection checks read the payment id, the resource id and the sender *)
(* of a proof and nothing else: one proof per such triple stands for all.   *)
ProofNaming(payment_id, resource_id) ==
    [payment_id |-> payment_id, resource_id |-> resource_id,
     transaction_hash |-> "tx1", network |-> network]

(* C7: a proof rejected for an unknown payment id, for a resource other    *)
(* than the record's or for a sender other than the record's requester is   *)
(* answered with the ResourceError of that cause, and the step changes no   *)
(* record, starts no verification and sends no ResourceAccess.              *)
C7_RejectionLeavesStoreUnchanged ==
    [][nProofs' = nProofs + 1 =>
          \A sender \in Agents, payment_id \in PaymentIds, resource_id \in ResourceIds :
             LET proof == ProofNaming(payment_id, resource_id)
             IN  (/\ ProofRejection(sender, proof) \in RejectionErrors
                  /\ HandlePaymentProof(sender, proof, "unread", "unread", "unread"))
                    => /\ sent' = ResourceErrorMsg(sender, proof.resource_id,
                                       proof.payment_id, ProofRejection(sender, proof),
                                       <<RejectionMessage(ProofRejection(sender, proof))>>)
                       /\ storage' = storage
                       /\ verifications' = verifications
                       /\ accesses' = accesses
                       /\ task' = task]_vars

C7_Witness ==
    /\ task # NoTask
    /\ sent.type = "ResourceError"
    /\ sent.error = "Resource mismatch"
    /\ sent.payment_id = task.payment_id
    /\ storage[task.payment_id].status = "pending"
    /\ verifications[task.payment_id] = 1

(* C8: verify_and_settle_payment is called at most once per payment id. *)
C8_VerifierStartedAtMostOnce ==
    \A p \in PaymentIds : verifications[p] <= 1

(* C9: a proof for a payment id whose record is completed is answered with  *)
(* the ResourceError of an unknown payment id; the step starts no           *)
(* verification, changes no record and sends no ResourceAccess.             *)
C9_CompletedProofAnsweredUnknown ==
    [][nProofs' = nProofs + 1 =>
          \A sender \in Agents, proof \in Proofs :
             (/\ proof.payment_id \in DOMAIN storage
              /\ storage[proof.payment_id].status = "completed"
              /\ \E answer \in AnswersRead(sender, proof) :
                    HandlePaymentProof(sender, proof, answer[1], answer[2], answer[3]))
                => /\ sent' = ResourceErrorMsg(sender, proof.resource_id,
                                   proof.payment_id, "Invalid payment ID",
                                   <<RejectionMessage("Invalid payment ID")>>)
                   /\ storage' = storage
                   /\ verifications' = verifications
                   /\ accesses' = accesses
                   /\ task' = task]_vars

ProofsNaming(payment_id, resource_id) ==
    [payment_id : {payment_id}, resource_id : {resource_id},
     transaction_hash : Transactions, network : Networks]

(* What verify_and_settle_payment returns when the broadcast gives no       *)
(* signature does not depend on any answer to a status query: none is made. *)
BroadcastFailureIsFinal ==
    \A proof \in Proofs, send_response \in SendResponses \ {"value"},
       status \in StatusAnswers \cup {"unread"},
       details \in DetailAnswers \cup {"unread"} :
       (is_solana(proof) /\ SolanaPrecheck(proof) = "")
          => /\ FirstResult(proof, send_response, status, details)
                   = BroadcastResult(send_response)
             /\ BroadcastResult(send_response).done
             /\ ~Granted(BroadcastResult(send_response))
             /\ BroadcastResult(send_response).error # ""

(* C11: when send_raw_transaction does not return a signature (an error     *)
(* response, an unexpected response or an exception), the handler ends in   *)
(* that step without a status query: the record is failed with the          *)
(* broadcast error, the ResourceError carrying it goes to the sender, no    *)
(* coroutine is left polling, the verifier was called once and no           *)
(* ResourceAccess is sent.                                                  *)
C11_BroadcastRejectionFailsAtOnce ==
    [][nProofs' = nProofs + 1 =>
          /\ BroadcastFailureIsFinal
          /\ \A sender \in Agents, payment_id \in PaymentIds, resource_id \in ResourceIds :
                ProofRejection(sender, ProofNaming(payment_id, resource_id)) = "" =>
                   \A proof \in ProofsNaming(payment_id, resource_id),
                      send_response \in SendResponses \ {"value"} :
                      (/\ ReachesLedger(sender, proof)
                       /\ HandlePaymentProof(sender, proof, send_response,
                                             "unread", "unread"))
                         => /\ sent' = ResourceErrorMsg(sender, proof.resource_id,
                                          proof.payment_id, "Payment verification failed",
                                          <<BroadcastResult(send_response).error>>)
                            /\ storage'[proof.payment_id].status = "failed"
                            /\ storage'[proof.payment_id].error =
                                  BroadcastResult(send_response).error
                            /\ task' = NoTask
                            /\ verifications' = Bump(verifications, proof.payment_id)
                            /\ accesses' = accesses]_vars

C11_Witness ==
    /\ task = NoTask
    /\ sent.type = "ResourceError"
    /\ sent.error = "Payment verification failed"
    /\ sent.body.message = <<"Transaction rejected by network">>
    /\ storage[sent.payment_id].status = "failed"
    /\ storage[sent.payment_id].error = "Transaction rejected by network"
    /\ verifications[sent.payment_id] = 1
    /\ accesses[sent.payment_id] = 0

(* C12: when the poll loop ends without a confirmation, the handler sends   *)
(* the ResourceError of the confirmation timeout, the record becomes failed *)
(* and the record holds the transaction that was broadcast.                 *)
C12_TimeoutKeepsTransactionReference ==
    [][(task.pc = "sleep" /\ task' = NoTask /\ task.attempt + 1 >= max_attempts)
          => /\ sent' = ResourceErrorMsg(task.sender, task.resource_id,
                           task.payment_id, "Payment verification failed",
                           <<"Transaction confirmation timeout">>)
             /\ storage'[task.payment_id].status = "failed"
             /\ storage'[task.payment_id].transaction_hash = task.transaction_hash]_vars

(* C13: a verification that has broadcast its transaction queries the       *)
(* status at most max_attempts times, one query per attempt, and ends,      *)
(* whatever the ledger answers.                                             *)
C13_VerificationTerminates ==
    /\ [](task.pc = "sleep" => task.attempt + 1 <= max_attempts)
    /\ [][(task.pc = "sleep" /\ task' # task)
             => (task' = NoTask \/ task' = [task EXCEPT !.attempt = @ + 1])]_vars
    /\ (task.pc = "sleep") ~> (task = NoTask)

C13_Witness ==
    /\ task.pc = "sleep"
    /\ task.attempt + 1 = max_attempts
    /\ storage[task.payment_id].status = "pending"

(* The step has sent the reply to a proof: a ResourceAccess with the record *)
(* completed, or a ResourceError that names an error.                       *)
Answered(sender, payment_id, resource_id) ==
    /\ sent'.to = sender
    /\ sent'.payment_id = payment_id
    /\ sent'.resource_id = resource_id
    /\ \/ /\ sent'.type = "ResourceAccess"
          /\ storage'[payment_id].status = "completed"
       \/ /\ sent'.type = "ResourceError"
          /\ sent'.error # ""
          /\ sent'.body.message # <<>>
          /\ sent'.body.message # <<"">>

TransferOf(transaction_hash) ==
    CASE transaction_hash = "tx1" ->
            [to_pubkey |-> merchant_address, lamports |-> 1000000]
      [] transaction_hash = "tx2" ->
            [to_pubkey |-> "other_wallet", lamports |-> 999999]
      [] OTHER -> [to_pubkey |-> "", lamports |-> 0]

(* The expected price in minor units: the lamports the client derives from  *)
(* a price in dollars (int(price * 1_000_000_000)), the token amount of a   *)
(* price in tokens.                                                         *)
ExpectedMinorUnits(resource_id) ==
    CASE resource_id = "premium_weather" -> 1000000
      [] resource_id = "premium_data" -> 10000
      [] resource_id = "premium_api" -> 5000000
      [] OTHER -> 0

(* C15: a record is completed only by a transaction that pays at least the  *)
(* expected price of its resource, in minor units.                          *)
C15_UnderpaymentFails ==
    \A p \in DOMAIN storage :
       storage[p].status = "completed"
          => TransferOf(storage[p].transaction_hash).lamports
                >= ExpectedMinorUnits(storage[p].resource_id)

(* C16: a record is completed only by a transaction that pays the           *)
(* configured payee, and a proof whose network is not the one announced in  *)
(* PaymentRequired gets no ResourceAccess in the step that takes it.        *)
C16_RecipientAndNetworkChecked ==
    /\ [](\A p \in DOMAIN storage :
            storage[p].status = "completed"
               => TransferOf(storage[p].transaction_hash).to_pubkey = merchant_address)
    /\ [][nProofs' = nProofs + 1 =>
             \A sender \in Agents, payment_id \in PaymentIds, resource_id \in ResourceIds :
                ProofRejection(sender, ProofNaming(payment_id, resource_id)) = "" =>
                   \A proof \in ProofsNaming(payment_id, resource_id) :
                      \A answer \in AnswersRead(sender, proof) :
                         (/\ proof.network # network
                          /\ HandlePaymentProof(sender, proof,
                                                answer[1], answer[2], answer[3]))
                            => /\ accesses' = accesses
                               /\ storage'[payment_id].status # "completed"]_vars

(* The step is the return of a verification to which the ledger confirmed   *)
(* the transaction: a status query answered with a confirmation without     *)
(* error after an accepted broadcast, or a settlement reported as settled.  *)
LedgerConfirmed ==
    \/ \E sender \in Agents, proof \in Proofs, details \in DetailAnswers :
          /\ ReachesLedger(sender, proof)
          /\ HandlePaymentProof(sender, proof, "value", "confirmed", details)
    \/ \E details \in DetailAnswers : PollAgain("confirmed", details)
    \/ EvmSettleReturns("settled")

(* C17: a record is set to completed only in a step in which the verifier   *)
(* returns with a confirmation of the ledger; the record of a payment id    *)
(* under verification is not terminal, and the verification writes nothing  *)
(* to the store before it returns (a provider that stops meanwhile leaves   *)
(* the record non-terminal).                                                *)
C17_CompletedOnlyAfterConfirmation ==
    /\ [](task # NoTask => ~Terminal(storage[task.payment_id]))
    /\ [][/\ \A p \in DOMAIN storage' :
                (/\ storage'[p].status = "completed"
                 /\ (p \notin DOMAIN storage \/ storage'[p] # storage[p]))
                   => LedgerConfirmed
          /\ (task' # NoTask /\ task' # task) => storage' = storage]_vars

(* The step is the return of a verification for payment id p: the handler   *)
(* of a proof for p ends in the step that takes the proof, or the coroutine *)
(* suspended for p ends.                                                    *)
VerificationReturns(p) ==
    \/ /\ task = NoTask
       /\ task' = NoTask
       /\ nProofs' = nProofs + 1
       /\ verifications'[p] = verifications[p] + 1
    \/ /\ task # NoTask
       /\ task.payment_id = p
       /\ task' = NoTask

(* C18: no step removes a record; the resource, the requester, the price    *)
(* and the creation time of a record never change; a record changes only    *)
(* in the step in which a verification for its payment id returns, and      *)
(* then only in its status, error, verification time and transaction.       *)
C18_RecordsAppendOnly ==
    [][\A p \in DOMAIN storage :
          /\ p \in DOMAIN storage'
          /\ storage'[p].resource_id = storage[p].resource_id
          /\ storage'[p].requester = storage[p].requester
          /\ storage'[p].price = storage[p].price
          /\ storage'[p].created_at = storage[p].created_at
          /\ DOMAIN storage'[p] = DOMAIN storage[p]
          /\ storage'[p] # storage[p] => VerificationReturns(p)]_vars

C18_Witness ==
    \E p, q \in DOMAIN storage :
       /\ p # q
       /\ storage[p].status = "failed"
       /\ storage[p].error = "Transaction confirmation timeout"
       /\ storage[p].created_at = 1
       /\ storage[p].price = "$0.001"
       /\ storage[q].status = "pending"
       /\ storage[q].created_at > storage[p].created_at

(* C19: while a verification is suspended in its poll loop or in an x402    *)
(* call, the provider can take a ResourceRequest, and a PaymentProof for    *)
(* another payment id, from its queue.                                      *)
C19_UnrelatedMessagesNotBlocked ==
    /\ (task # NoTask /\ nRequests < MaxRequests)
          => ENABLED (\E sender \in Agents, resource_id \in ResourceIds :
                         HandleResourceRequest(sender, resource_id))
    /\ (task # NoTask /\ nProofs < MaxProofs)
          => ENABLED (\E sender \in Agents, proof \in Proofs :
                         /\ proof.payment_id # task.payment_id
                         /\ HandlePaymentProof(sender, proof,
                                               "unread", "unread", "unread"))

-----------------------------------------------------------------------------
(* The transaction builder of the client, src/uagentdemo/src/client.py:      *)
(* create_signed_solana_transaction as a function of its arguments, of the   *)
(* configured private key and of what the library calls answer.              *)

(* CLIENT_WALLET_PRIVATE_KEY: unset, not base58, or the key of a wallet. *)
PrivateKeys == {"", "not-base58-key", "key_a", "key_b"}

PayerAddresses == {"wallet_a", "wallet_b", "merchant_wallet"}

RecipientAddresses == {"merchant_wallet", "other_wallet", "not-a-pubkey"}

(* amount_sol, in thousandths of a SOL *)
AmountsMilliSol == {1, 5}

BlockhashAnswers == {"blockhash", "exception"}

(* base58.b58decode and Keypair.from_bytes succeed on the keys of wallets. *)
KeypairOk(private_key) == private_key \in {"key_a", "key_b"}

(* str(sender_keypair.pubkey()) *)
pubkey(private_key) ==
    CASE private_key = "key_a" -> "wallet_a"
      [] private_key = "key_b" -> "wallet_b"
      [] OTHER -> ""

KeyMatchNotChecked(private_key, from_address) == TRUE

(* str(sender_keypair.pubkey()) != from_address, negated *)
KeyMatches(private_key, from_address) == pubkey(private_key) = from_address

(* The empty string returned in place of a signed transaction. *)
NoSignedTransaction ==
    [payer |-> "", signer |-> "", to_pubkey |-> "", lamports |-> 0,
     recent_blockhash |-> ""]

BuilderFailure(message) ==
    [success |-> FALSE, signed_tx_base58 |-> NoSignedTransaction, message |-> message]

(* int(amount_sol * 1_000_000_000) for an amount in thousandths of a SOL *)
amount_lamports(amount_milli_sol) == amount_milli_sol * 1000000

create_signed_solana_transaction(solana_available, private_key, from_address, to_address, amount_milli_sol, signing_network, blockhash_answer) ==
    IF ~solana_available THEN BuilderFailure("Solana library not installed")
    ELSE IF private_key = ""
    THEN BuilderFailure("CLIENT_WALLET_PRIVATE_KEY not set in .env")
    ELSE IF signing_network \notin {"solana-devnet", "solana-mainnet"}
    THEN BuilderFailure("Unknown network")
    ELSE IF ~KeypairOk(private_key)
    THEN BuilderFailure("Invalid private key format")
    ELSE IF ~KeyMatches(private_key, from_address)
    THEN BuilderFailure("Private key doesn't match wallet address")
    ELSE IF to_address = "not-a-pubkey" \/ blockhash_answer = "exception"
    THEN BuilderFailure("Error creating signed transaction")
    ELSE [success |-> TRUE,
          signed_tx_base58 |->
              [payer |-> pubkey(private_key), signer |-> pubkey(private_key),
               to_pubkey |-> to_address,
               lamports |-> amount_lamports(amount_milli_sol),
               recent_blockhash |-> blockhash_answer],
          message |-> "Transaction signed successfully"]

SigningInputs ==
    [phase : {"called"}, solana_available : BOOLEAN, private_key : PrivateKeys,
     from_address : PayerAddresses, to_address : RecipientAddresses,
     amount_milli_sol : AmountsMilliSol, network : SolanaNetworks,
     blockhash_answer : BlockhashAnswers, result : {BuilderFailure("")}]

BuilderInit ==
    /\ storage = [k \in {} |-> NoTask]
    /\ issued = {}
    /\ total_payments = 0
    /\ total_accesses = 0
    /\ task = NoTask
    /\ sent = NoMessage
    /\ accesses = [p \in PaymentIds |-> 0]
    /\ verifications = [p \in PaymentIds |-> 0]
    /\ nRequests = 0
    /\ nProofs = 0
    /\ signing \in SigningInputs
    /\ client = NoClient
    /\ proxy = NoProxy
    /\ verifier = NoVerifier

(* The call returns. *)
CreateSignedSolanaTransaction ==
    /\ signing.phase = "called"
    /\ signing' = [signing EXCEPT
                      !.phase = "returned",
                      !.result = create_signed_solana_transaction(
                                     signing.solana_available, signing.private_key,
                                     signing.from_address, signing.to_address,
                                     signing.amount_milli_sol, signing.network,
                                     signing.blockhash_answer)]
    /\ UNCHANGED <<storage, issued, total_payments, total_accesses, task, sent,
                   accesses, verifications, nRequests, nProofs, client, proxy,
                   verifier>>

BuilderNext == CreateSignedSolanaTransaction

BuilderSpec == BuilderInit /\ [][BuilderNext]_vars

(* C20: the builder signs only with the key of the declared payer: when the *)
(* address derived from the private key is not from_address, the call       *)
(* returns a failure and no signed transaction, with the message of the key *)
(* mismatch when it got as far as deriving the address; a transaction that  *)
(* is returned is signed by from_address.                                   *)
C20_SignsOnlyWithPayerKey ==
    signing.phase = "returned" =>
       /\ pubkey(signing.private_key) # signing.from_address
             => /\ ~signing.result.success
                /\ signing.result.signed_tx_base58 = NoSignedTransaction
       /\ (/\ signing.solana_available
           /\ signing.network \in {"solana-devnet", "solana-mainnet"}
           /\ KeypairOk(signing.private_key)
           /\ pubkey(signing.private_key) # signing.from_address)
             => signing.result.message = "Private key doesn't match wallet address"
       /\ signing.result.success
             => /\ signing.result.signed_tx_base58.signer = signing.from_address
                /\ signing.result.signed_tx_base58.payer = signing.from_address

C20_Witness ==
    /\ signing.phase = "returned"
    /\ signing.solana_available
    /\ signing.private_key = "key_a"
    /\ signing.from_address = "wallet_b"
    /\ signing.to_address = "merchant_wallet"
    /\ signing.network = "solana-devnet"
    /\ signing.blockhash_answer = "blockhash"
    /\ signing.result = BuilderFailure("Private key doesn't match wallet address")

-----------------------------------------------------------------------------
(* The requester agent of src/uagentdemo/src/client.py.  Its configuration  *)
(* is read from the environment once; startup checks the wallet balance;    *)
(* request_premium_resource asks for the target resource; the message       *)
(* handlers answer a PaymentRequired with a PaymentProof that carries the   *)
(* signed transaction.  The agent runs with a local endpoint                *)
(* (CLIENT_AGENTVERSE unset), so that the mailbox wait does not apply.      *)
(* client.rpc_calls collects the methods the agent invoked on the ledger    *)
(* RPC client, client.outbox the messages it passed to ctx.send.            *)

MaxClientMessages == 2

min_balance_lamports == 10000000

MERCHANT_UAGENT_ADDRESS == "merchant_agent"

TARGET_RESOURCE == "premium_weather"

PAYMENT_NETWORK == "solana-devnet"

ClientSenders == {MERCHANT_UAGENT_ADDRESS, "agent_x"}

ClientWalletAddresses == {"wallet_a", "wallet_b", "YOUR_SOLANA_WALLET_ADDRESS_HERE"}

ClientPrices == {"$0.001", "$0.005", "$1", "0.01 USDC", "$free"}

(* What client.get_balance answers: a balance in lamports, no value, or an  *)
(* exception.                                                               *)
BalanceAnswers ==
    [kind : {"value"}, lamports : {0, 9999999, 10000000, 2000000000}]
        \cup {[kind |-> "none", lamports |-> 0], [kind |-> "exception", lamports |-> 0]}

BalanceResult(has_funds, balance_lamports, message) ==
    [has_funds |-> has_funds, balance_lamports |-> balance_lamports,
     message |-> message]

(* check_solana_balance; balance_sol >= min_balance is compared in lamports *)
check_solana_balance(solana_available, wallet_address, balance_network, answer) ==
    IF ~solana_available
    THEN BalanceResult(FALSE, 0, "Solana library not installed")
    ELSE IF wallet_address = "YOUR_SOLANA_WALLET_ADDRESS_HERE" \/ wallet_address = ""
    THEN BalanceResult(FALSE, 0, "Wallet address not configured in .env")
    ELSE IF balance_network \notin {"solana-devnet", "solana-mainnet"}
    THEN BalanceResult(FALSE, 0, "Unknown network")
    ELSE IF answer.kind = "exception"
    THEN BalanceResult(FALSE, 0, "Error checking balance")
    ELSE IF answer.kind = "none"
    THEN BalanceResult(FALSE, 0, "Could not fetch balance")
    ELSE IF answer.lamports >= min_balance_lamports
    THEN BalanceResult(TRUE, answer.lamports, "Wallet has SOL")
    ELSE BalanceResult(FALSE, answer.lamports, "Insufficient funds")

(* The RPC methods check_solana_balance invokes. *)
balance_rpc_calls(solana_available, wallet_address, balance_network) ==
    IF /\ solana_available
       /\ wallet_address \notin {"YOUR_SOLANA_WALLET_ADDRESS_HERE", ""}
       /\ balance_network \in {"solana-devnet", "solana-mainnet"}
    THEN {"get_balance"}
    ELSE {}

builder_rpc_calls_and_broadcast(solana_available, private_key, from_address, to_address, signing_network) ==
    {"get_latest_blockhash", "send_transaction"}

(* The RPC methods create_signed_solana_transaction invokes: the latest     *)
(* blockhash, once the key and the recipient have been accepted.            *)
builder_rpc_calls(solana_available, private_key, from_address, to_address, signing_network) ==
    IF /\ solana_available
       /\ private_key # ""
       /\ signing_network \in {"solana-devnet", "solana-mainnet"}
       /\ KeypairOk(private_key)
       /\ KeyMatches(private_key, from_address)
       /\ to_address # "not-a-pubkey"
    THEN {"get_latest_blockhash"}
    ELSE {}

(* handle_payment_required, price to amount: float(price without "$") taken *)
(* as SOL, in thousandths of a SOL; 0.001 SOL for a price that does not     *)
(* start with "$" or does not parse.                                        *)
amount_sol(price) ==
    CASE price = "$0.001" -> 1
      [] price = "$0.005" -> 5
      [] price = "$1" -> 1000
      [] OTHER -> 1

ClientConfigurations ==
    [phase : {"configured"}, SOLANA_AVAILABLE : BOOLEAN,
     CLIENT_WALLET_PRIVATE_KEY : PrivateKeys,
     CLIENT_WALLET_ADDRESS : ClientWalletAddresses,
     request_count : {0}, resource_received : {FALSE},
     pending_payment : {NoPayment}, wallet_funded : {FALSE},
     balance_lamports : {0}, rpc_calls : {{}}, outbox : {<<>>},
     attempt : {BuilderFailure("")}, handled : {NoMessage}, nHandled : {0},
     error_since_request : {FALSE}, mailbox_ready : {FALSE}]

PaymentRequiredMessages ==
    [type : {"PaymentRequired"}, sender : ClientSenders, payment_id : {1, 2},
     resource_id : {TARGET_RESOURCE}, price : ClientPrices,
     pay_to_address : {"merchant_wallet", "not-a-pubkey"},
     network : {"solana-devnet", "base-sepolia"}]

ResourceAccessMessages ==
    [type : {"ResourceAccess"}, sender : ClientSenders, payment_id : {1, 2},
     resource_id : {TARGET_RESOURCE}, success : BOOLEAN, resource_data : BOOLEAN]

ResourceErrorMessages ==
    [type : {"ResourceError"}, sender : ClientSenders,
     payment_id : {NoPayment, 1}, resource_id : {TARGET_RESOURCE}]

ClientInit ==
    /\ storage = [k \in {} |-> NoTask]
    /\ issued = {}
    /\ total_payments = 0
    /\ total_accesses = 0
    /\ task = NoTask
    /\ sent = NoMessage
    /\ accesses = [p \in PaymentIds |-> 0]
    /\ verifications = [p \in PaymentIds |-> 0]
    /\ nRequests = 0
    /\ nProofs = 0
    /\ signing = NoSigning
    /\ client \in ClientConfigurations
    /\ proxy = NoProxy
    /\ verifier = NoVerifier

ClientUnchanged ==
    UNCHANGED <<storage, issued, total_payments, total_accesses, task, sent,
                accesses, verifications, nRequests, nProofs, signing, proxy,
                verifier>>

(* startup; CLIENT_AGENTVERSE is the setting read from the environment at   *)
(* line 69: with it the mailbox is not ready until ensure_mailbox_ready,    *)
(* started as a task, finds the access token.                               *)
ClientStartup(answer, CLIENT_AGENTVERSE) ==
    /\ client.phase = "configured"
    /\ LET check == check_solana_balance(client.SOLANA_AVAILABLE,
                        client.CLIENT_WALLET_ADDRESS, PAYMENT_NETWORK, answer)
       IN client' = [client EXCEPT
                        !.phase = "started",
                        !.request_count = 0,
                        !.resource_received = FALSE,
                        !.pending_payment = NoPayment,
                        !.mailbox_ready = ~CLIENT_AGENTVERSE,
                        !.wallet_funded = check.has_funds,
                        !.balance_lamports = check.balance_lamports,
                        !.rpc_calls = @ \cup balance_rpc_calls(
                                          client.SOLANA_AVAILABLE,
                                          client.CLIENT_WALLET_ADDRESS,
                                          PAYMENT_NETWORK)]
    /\ ClientUnchanged

(* ensure_mailbox_ready: the mailbox client got its access token. *)
EnsureMailboxReady ==
    /\ client.phase = "started"
    /\ ~client.mailbox_ready
    /\ client' = [client EXCEPT !.mailbox_ready = TRUE]
    /\ ClientUnchanged

ResourceRequestOf(c) ==
    [type |-> "ResourceRequest", to |-> MERCHANT_UAGENT_ADDRESS,
     resource_id |-> TARGET_RESOURCE,
     requester_address |-> c.CLIENT_WALLET_ADDRESS]

MayRequestIgnoringCount(c) ==
    /\ ~c.resource_received
    /\ c.pending_payment = NoPayment

(* request_premium_resource, the three early returns: the tick goes on to   *)
(* send only when none of them is taken.                                    *)
MayRequest(c) ==
    /\ ~c.resource_received
    /\ c.pending_payment = NoPayment
    /\ ~(c.request_count > 0)

(* request_premium_resource, every ten seconds: it returns at once when the *)
(* mailbox is not ready (mailbox_ready is set at startup when              *)
(* CLIENT_AGENTVERSE is off), the resource was received, a payment is       *)
(* pending or a request was made.                                           *)
(* error_since_request records whether handle_error ran after the last      *)
(* ResourceRequest was sent.                                                *)
RequestPremiumResource(send_ok) ==
    /\ client.phase = "started"
    /\ client.mailbox_ready
    /\ MayRequest(client)
    /\ client' = IF send_ok
                 THEN [client EXCEPT
                          !.outbox = Append(@, ResourceRequestOf(client)),
                          !.request_count = @ + 1,
                          !.error_since_request = FALSE]
                 ELSE client
    /\ ClientUnchanged

(* handle_payment_required, the prerequisites checked before the builder is *)
(* called: the error logged, or "" when they hold.                          *)
ClientPrecheck(c) ==
    IF ~c.SOLANA_AVAILABLE THEN "SOLANA LIBRARY NOT INSTALLED"
    ELSE IF c.CLIENT_WALLET_PRIVATE_KEY = ""
    THEN "WALLET PRIVATE KEY NOT CONFIGURED"
    ELSE IF ~c.wallet_funded THEN "WALLET NOT FUNDED"
    ELSE ""

(* The outcome of the attempt to pay: the failed prerequisite, or what the  *)
(* builder returned.                                                        *)
PaymentAttempt(c, msg, blockhash_answer) ==
    IF ClientPrecheck(c) # "" THEN BuilderFailure(ClientPrecheck(c))
    ELSE create_signed_solana_transaction(
             c.SOLANA_AVAILABLE, c.CLIENT_WALLET_PRIVATE_KEY,
             c.CLIENT_WALLET_ADDRESS, msg.pay_to_address, amount_sol(msg.price),
             msg.network, blockhash_answer)

PaymentProofOf(c, msg, signed_tx_base58) ==
    [type |-> "PaymentProof", to |-> msg.sender, payment_id |-> msg.payment_id,
     resource_id |-> msg.resource_id, transaction_hash |-> signed_tx_base58,
     from_address |-> c.CLIENT_WALLET_ADDRESS,
     to_address |-> msg.pay_to_address, amount |-> msg.price,
     network |-> msg.network]

ProofRegardlessOfAttempt(outbox, c, msg, attempt, send_ok) ==
    Append(outbox, PaymentProofOf(c, msg, attempt.signed_tx_base58))

(* handle_payment_required, after the attempt: return without a send when   *)
(* it failed, else ctx.send(sender, proof), which may raise.                *)
ProofAfterAttempt(outbox, c, msg, attempt, send_ok) ==
    IF attempt.success /\ send_ok
    THEN Append(outbox, PaymentProofOf(c, msg, attempt.signed_tx_base58))
    ELSE outbox

ClientHandlePaymentRequired(msg, blockhash_answer, send_ok) ==
    /\ client.phase = "started"
    /\ client.nHandled < MaxClientMessages
    /\ LET attempt == PaymentAttempt(client, msg, blockhash_answer)
       IN client' = [client EXCEPT
                        !.pending_payment = msg.payment_id,
                        !.attempt = attempt,
                        !.rpc_calls = @ \cup
                            IF ClientPrecheck(client) # "" THEN {}
                            ELSE builder_rpc_calls(
                                     client.SOLANA_AVAILABLE,
                                     client.CLIENT_WALLET_PRIVATE_KEY,
                                     client.CLIENT_WALLET_ADDRESS,
                                     msg.pay_to_address, msg.network),
                        !.outbox = ProofAfterAttempt(@, client, msg, attempt, send_ok),
                        !.handled = msg,
                        !.nHandled = @ + 1]
    /\ ClientUnchanged

(* handle_resource_access *)
ClientHandleResourceAccess(msg) ==
    /\ client.phase = "started"
    /\ client.nHandled < MaxClientMessages
    /\ client' = [client EXCEPT
                     !.resource_received =
                         IF msg.success /\ msg.resource_data THEN TRUE ELSE @,
                     !.pending_payment = IF msg.success THEN NoPayment ELSE @,
                     !.handled = msg,
                     !.nHandled = @ + 1]
    /\ ClientUnchanged

ErrorHandledKeepsCount(c) ==
    [c EXCEPT !.pending_payment = NoPayment]

(* handle_error: what it writes to the agent's storage. *)
ErrorHandled(c) ==
    [c EXCEPT !.pending_payment = NoPayment, !.request_count = 0]

(* handle_error *)
ClientHandleError(msg) ==
    /\ client.phase = "started"
    /\ client.nHandled < MaxClientMessages
    /\ client' = [ErrorHandled(client) EXCEPT
                     !.handled = msg,
                     !.nHandled = @ + 1,
                     !.error_since_request = TRUE]
    /\ ClientUnchanged

(* Messages reach the client once its mailbox is ready: with                *)
(* CLIENT_AGENTVERSE they come through the mailbox, whose access token is   *)
(* what ensure_mailbox_ready waits for.                                     *)
ClientNext ==
    \/ \E answer \in BalanceAnswers, CLIENT_AGENTVERSE \in BOOLEAN :
          ClientStartup(answer, CLIENT_AGENTVERSE)
    \/ EnsureMailboxReady
    \/ \E send_ok \in BOOLEAN : RequestPremiumResource(send_ok)
    \/ /\ client.mailbox_ready
       /\ \E msg \in PaymentRequiredMessages,
             blockhash_answer \in BlockhashAnswers, send_ok \in BOOLEAN :
             ClientHandlePaymentRequired(msg, blockhash_answer, send_ok)
    \/ /\ client.mailbox_ready
       /\ \E msg \in ResourceAccessMessages : ClientHandleResourceAccess(msg)
    \/ /\ client.mailbox_ready
       /\ \E msg \in ResourceErrorMessages : ClientHandleError(msg)

ClientSpec == ClientInit /\ [][ClientNext]_vars

(* C21: the requester never broadcasts a payment transaction itself: the    *)
(* only ledger RPC methods the client invokes are get_balance and           *)
(* get_latest_blockhash, never a submission, and every message by which a   *)
(* signed transaction leaves the client is a PaymentProof addressed to the  *)
(* sender of the PaymentRequired being answered, carrying the transaction   *)
(* the builder returned for it.  Submission is left to the provider's       *)
(* verifier (BroadcastResult).                                              *)
C21_ClientNeverBroadcasts ==
    [][/\ client'.rpc_calls \subseteq {"get_balance", "get_latest_blockhash"}
       /\ \A i \in (Len(client.outbox) + 1)..Len(client'.outbox) :
             client'.outbox[i].type = "PaymentProof" =>
                /\ client'.handled.type = "PaymentRequired"
                /\ client'.attempt.success
                /\ client'.outbox[i].to = client'.handled.sender
                /\ client'.outbox[i].transaction_hash
                       = client'.attempt.signed_tx_base58
       /\ Len(client'.outbox) <= Len(client.outbox) + 1]_vars

C21_Witness ==
    /\ client.phase = "started"
    /\ client.attempt.success
    /\ client.rpc_calls = {"get_balance", "get_latest_blockhash"}
    /\ Len(client.outbox) = 2
    /\ client.outbox[2].type = "PaymentProof"
    /\ client.outbox[2].to = MERCHANT_UAGENT_ADDRESS
    /\ client.outbox[2].transaction_hash = client.attempt.signed_tx_base58

(* C22: a requester-side failure aborts the attempt locally: when the       *)
(* client handles a PaymentRequired and the library or the private key is   *)
(* missing, the key does not match the wallet, the wallet is not funded, or *)
(* the builder fails to build or sign, the handler passes nothing to        *)
(* ctx.send: no PaymentProof and no other message.                          *)
C22_LocalFailureSendsNothing ==
    [][(/\ client'.nHandled = client.nHandled + 1
        /\ client'.handled.type = "PaymentRequired"
        /\ \/ ~client.SOLANA_AVAILABLE
           \/ client.CLIENT_WALLET_PRIVATE_KEY = ""
           \/ ~KeypairOk(client.CLIENT_WALLET_PRIVATE_KEY)
           \/ pubkey(client.CLIENT_WALLET_PRIVATE_KEY) # client.CLIENT_WALLET_ADDRESS
           \/ ~client.wallet_funded
           \/ ~client'.attempt.success)
          => client'.outbox = client.outbox]_vars

C22_Witness ==
    /\ client.phase = "started"
    /\ client.handled.type = "PaymentRequired"
    /\ client.SOLANA_AVAILABLE
    /\ client.CLIENT_WALLET_PRIVATE_KEY = "key_a"
    /\ client.CLIENT_WALLET_ADDRESS = "wallet_a"
    /\ ~client.wallet_funded
    /\ client.attempt = BuilderFailure("WALLET NOT FUNDED")
    /\ client.nHandled = 1
    /\ client.outbox = <<ResourceRequestOf(client)>>

(* C23: the client signs a payment transaction only if the balance of the   *)
(* payer it observed before is at least the amount of the transaction (and  *)
(* so the more when a network fee is added).                                *)
C23_SignsOnlyWithSufficientBalance ==
    client.attempt.success
        => client.balance_lamports >= client.attempt.signed_tx_base58.lamports

-----------------------------------------------------------------------------
(* The forwarding agent of src/uagentdemo/src/agentverse-proxy.py.  Clients *)
(* send it ResourceRequest and PaymentProof messages, which it passes on to *)
(* the local merchant; the merchant answers to the proxy, which looks up    *)
(* the client in ctx.storage.  proxy.routes is the part of ctx.storage that *)
(* holds the "client_<resource>_<sender[:16]>" and "payment_<id>" keys,     *)
(* proxy.outbox the messages the handler that ran last passed to ctx.send,  *)
(* proxy.awaiting the forwarded messages the merchant has not answered yet. *)
(* ctx.storage is a file: what a previous run left is there at the start.   *)

MaxProxyMessages == 3

LocalMerchant == "agent1qmerchant00"

(* Client addresses; the first 16 characters of the third are those of the  *)
(* merchant's address.                                                      *)
ProxyClients == {"agent1qclient0a00", "agent1qclient0b00", "agent1qmerchant0x"}

(* sender[:16] *)
Prefix16(address) ==
    CASE address = "agent1qmerchant00" -> "agent1qmerchant0"
      [] address = "agent1qmerchant0x" -> "agent1qmerchant0"
      [] address = "agent1qclient0a00" -> "agent1qclient0a0"
      [] address = "agent1qclient0b00" -> "agent1qclient0b0"
      [] OTHER -> address

ClientKey(resource_id, sender) == <<"client", resource_id, Prefix16(sender)>>

PaymentKey(payment_id) == <<"payment", payment_id>>

NoRoutes == [k \in {} |-> ""]

(* ctx.storage.delete *)
Delete(store, key) == [k \in (DOMAIN store) \ {key} |-> store[k]]

(* ctx.storage.get: None, here "", for a key that is not there *)
Get(store, key) == IF key \in DOMAIN store THEN store[key] ELSE ""

ProxyConfigurations ==
    [phase : {"configured"}, local_merchant_address : {"", LocalMerchant},
     health_check_passed : BOOLEAN, awaiting_health_response : {FALSE},
     health_response_received : {FALSE}, routes : {NoRoutes},
     total_messages_received : {0}, total_messages_forwarded : {0},
     outbox : {<<>>}, awaiting : {{}}, handled : {NoMessage},
     last_proof : {[payment_id \in {1, 2} |-> ""]}]

ProxyRequests ==
    [type : {"ResourceRequest"}, resource_id : {"premium_weather", "no_such_resource"}]

ProxyProofs ==
    [type : {"PaymentProof"}, payment_id : {1, 2}, resource_id : {"premium_weather"}]

ProxyInit ==
    /\ storage = [k \in {} |-> NoTask]
    /\ issued = {}
    /\ total_payments = 0
    /\ total_accesses = 0
    /\ task = NoTask
    /\ sent = NoMessage
    /\ accesses = [p \in PaymentIds |-> 0]
    /\ verifications = [p \in PaymentIds |-> 0]
    /\ nRequests = 0
    /\ nProofs = 0
    /\ signing = NoSigning
    /\ client = NoClient
    /\ proxy \in ProxyConfigurations
    /\ verifier = NoVerifier

ProxyUnchanged ==
    UNCHANGED <<storage, issued, total_payments, total_accesses, task, sent,
                accesses, verifications, nRequests, nProofs, signing, client,
                verifier>>

Send(to, msg) == [to |-> to, msg |-> msg]

(* introduce_agent, the startup handler: every path stores                  *)
(* health_check_passed = False.                                             *)
introduce_agent(send_ok) ==
    /\ proxy.phase = "configured"
    /\ proxy' = [proxy EXCEPT
                    !.phase = "started",
                    !.health_check_passed = FALSE,
                    !.awaiting_health_response =
                        IF proxy.local_merchant_address # "" /\ send_ok
                        THEN TRUE ELSE @,
                    !.outbox =
                        IF proxy.local_merchant_address # "" /\ send_ok
                        THEN <<Send(proxy.local_merchant_address,
                                    [type |-> "HealthCheckRequest"])>>
                        ELSE <<>>]
    /\ ProxyUnchanged

handle_health_check_response(sender) ==
    /\ proxy.phase = "started"
    /\ proxy' = [proxy EXCEPT
                    !.health_check_passed = TRUE,
                    !.awaiting_health_response = FALSE,
                    !.health_response_received = TRUE,
                    !.outbox = <<>>,
                    !.handled = [type |-> "HealthCheckResponse", sender |-> sender]]
    /\ ProxyUnchanged

HealthNotChecked(p) == TRUE

(* health_check_passed = ctx.storage.get("health_check_passed"), as tested  *)
(* by "if not health_check_passed"                                          *)
Healthy(p) == p.health_check_passed

ProxyUnhealthy(resource_id, payment_id) ==
    [type |-> "ResourceError", resource_id |-> resource_id,
     payment_id |-> payment_id, error |-> "Proxy unhealthy"]

ForwardFailed(resource_id, payment_id) ==
    [type |-> "ResourceError", resource_id |-> resource_id,
     payment_id |-> payment_id, error |-> "Forward failed"]

(* The common body of the proxy's handle_resource_request and               *)
(* handle_payment_proof: count, check health, store the sender under key,   *)
(* forward, count again; the ResourceError names payment_id.                *)
(* proxy.last_proof[p] is the sender of the last PaymentProof for p that    *)
(* ctx.send passed on to the merchant and whose answer has not been sent    *)
(* back yet, "" when there is none.                                         *)
Forward(sender, msg, key, payment_id, forward_ok) ==
    /\ proxy.phase = "started"
    /\ proxy.total_messages_received < MaxProxyMessages
    /\ proxy' =
         IF ~Healthy(proxy)
         THEN [proxy EXCEPT
                  !.total_messages_received = @ + 1,
                  !.outbox = <<Send(sender, ProxyUnhealthy(msg.resource_id, payment_id))>>,
                  !.handled = [msg |-> msg, sender |-> sender]]
         ELSE IF proxy.local_merchant_address = ""
         THEN [proxy EXCEPT
                  !.total_messages_received = @ + 1,
                  !.outbox = <<>>,
                  !.handled = [msg |-> msg, sender |-> sender]]
         ELSE IF forward_ok
         THEN [proxy EXCEPT
                  !.total_messages_received = @ + 1,
                  !.total_messages_forwarded = @ + 1,
                  !.routes = Put(@, key, sender),
                  !.outbox = <<Send(proxy.local_merchant_address, msg)>>,
                  !.awaiting = @ \cup {[msg |-> msg, sender |-> sender]},
                  !.handled = [msg |-> msg, sender |-> sender],
                  !.last_proof = IF msg.type = "PaymentProof"
                                 THEN [@ EXCEPT ![msg.payment_id] = sender]
                                 ELSE @]
         ELSE [proxy EXCEPT
                  !.total_messages_received = @ + 1,
                  !.routes = Put(@, key, sender),
                  !.outbox = <<Send(sender, ForwardFailed(msg.resource_id, payment_id))>>,
                  !.handled = [msg |-> msg, sender |-> sender]]
    /\ ProxyUnchanged

ProxyHandleResourceRequest(sender, request, forward_ok) ==
    Forward(sender, request, ClientKey(request.resource_id, sender), NoPayment, forward_ok)

ProxyHandlePaymentProof(sender, proof, forward_ok) ==
    Forward(sender, proof, PaymentKey(proof.payment_id), proof.payment_id, forward_ok)

(* The answers of the local merchant to a message that was forwarded to it. *)
MerchantAnswers(forwarded) ==
    IF forwarded.msg.type = "ResourceRequest"
    THEN [type : {"PaymentRequired"}, resource_id : {forwarded.msg.resource_id},
          payment_id : {1, 2}]
         \cup {[type |-> "ResourceError", resource_id |-> forwarded.msg.resource_id,
                payment_id |-> NoPayment]}
    ELSE [type : {"ResourceAccess", "ResourceError"},
          resource_id : {forwarded.msg.resource_id},
          payment_id : {forwarded.msg.payment_id}]

(* The common body of the three handlers of the merchant's answers: look up *)
(* the client under key and forward, or drop the message; a payment key is  *)
(* deleted after use.                                                       *)
Route(forwarded, sender, msg, key, found, delete) ==
    /\ proxy.phase = "started"
    /\ forwarded \in proxy.awaiting
    /\ msg \in MerchantAnswers(forwarded)
    /\ proxy' = [proxy EXCEPT
                    !.outbox = IF found /\ Get(proxy.routes, key) # ""
                               THEN <<Send(Get(proxy.routes, key), msg)>>
                               ELSE <<>>,
                    !.routes = IF found /\ delete /\ Get(proxy.routes, key) # ""
                               THEN Delete(@, key) ELSE @,
                    !.awaiting = @ \ {forwarded},
                    !.handled = [msg |-> msg, sender |-> sender,
                                 answers |-> forwarded],
                    !.last_proof =
                        IF found /\ Get(proxy.routes, key) # ""
                              /\ msg.type \in {"ResourceAccess", "ResourceError"}
                        THEN [@ EXCEPT ![msg.payment_id] = ""]
                        ELSE @]
    /\ ProxyUnchanged

ProxyHandlePaymentRequired(forwarded, sender, msg) ==
    /\ msg.type = "PaymentRequired"
    /\ Route(forwarded, sender, msg, ClientKey(msg.resource_id, sender), TRUE, FALSE)

ProxyHandleResourceAccess(forwarded, sender, msg) ==
    /\ msg.type = "ResourceAccess"
    /\ Route(forwarded, sender, msg, PaymentKey(msg.payment_id), TRUE, TRUE)

ProxyHandleResourceError(forwarded, sender, msg) ==
    /\ msg.type = "ResourceError"
    /\ Route(forwarded, sender, msg, PaymentKey(msg.payment_id),
             msg.payment_id # NoPayment, TRUE)

PeriodicStatusRun == [type |-> "periodic_status"]

(* periodic_status, every ten minutes: it reads health_check_passed, the    *)
(* counters, awaiting_health_response and health_check_error, logs one line *)
(* and neither sends nor stores anything.                                   *)
periodic_status ==
    /\ proxy.phase = "started"
    /\ proxy' = [proxy EXCEPT !.outbox = <<>>, !.handled = PeriodicStatusRun]
    /\ ProxyUnchanged

ProxyNext ==
    \/ \E send_ok \in BOOLEAN : introduce_agent(send_ok)
    \/ periodic_status
    \/ \E sender \in {LocalMerchant} : handle_health_check_response(sender)
    \/ \E sender \in ProxyClients, request \in ProxyRequests, forward_ok \in BOOLEAN :
          ProxyHandleResourceRequest(sender, request, forward_ok)
    \/ \E sender \in ProxyClients, proof \in ProxyProofs, forward_ok \in BOOLEAN :
          ProxyHandlePaymentProof(sender, proof, forward_ok)
    \/ \E forwarded \in proxy.awaiting : \E msg \in MerchantAnswers(forwarded) :
          ProxyHandlePaymentRequired(forwarded, LocalMerchant, msg)
    \/ \E forwarded \in proxy.awaiting : \E msg \in MerchantAnswers(forwarded) :
          ProxyHandleResourceAccess(forwarded, LocalMerchant, msg)
    \/ \E forwarded \in proxy.awaiting : \E msg \in MerchantAnswers(forwarded) :
          ProxyHandleResourceError(forwarded, LocalMerchant, msg)

ProxySpec == ProxyInit /\ [][ProxyNext]_vars

(* C24: the proxy forwards a client's ResourceRequest or PaymentProof to    *)
(* the local merchant only while its health check has passed, that is after *)
(* a HealthCheckResponse was received since startup; until then it forwards *)
(* nothing and answers the client with a ResourceError "Proxy unhealthy"    *)
(* that names the resource and, for a proof, the payment.                   *)
C24_ForwardsOnlyWhileHealthy ==
    [][proxy'.total_messages_received = proxy.total_messages_received + 1 =>
          LET sender == proxy'.handled.sender
              msg == proxy'.handled.msg
              payment_id == IF msg.type = "PaymentProof"
                            THEN msg.payment_id ELSE NoPayment
          IN IF proxy.health_response_received
             THEN \A i \in 1..Len(proxy'.outbox) :
                     proxy'.outbox[i].to # sender
                        => proxy'.outbox[i] = Send(LocalMerchant, msg)
             ELSE /\ proxy'.outbox
                       = <<Send(sender, ProxyUnhealthy(msg.resource_id, payment_id))>>
                  /\ proxy'.total_messages_forwarded = proxy.total_messages_forwarded
                  /\ proxy'.awaiting = proxy.awaiting
                  /\ proxy'.routes = proxy.routes]_vars

C24_Witness ==
    /\ proxy.phase = "started"
    /\ proxy.local_merchant_address = LocalMerchant
    /\ ~proxy.health_response_received
    /\ proxy.total_messages_received = 2
    /\ proxy.total_messages_forwarded = 0
    /\ proxy.outbox = <<Send("agent1qclient0a00", ProxyUnhealthy("premium_weather", 1))>>

(* C25: the proxy routes every answer of the local merchant back to the     *)
(* client that sent the corresponding message: when the proxy handles the   *)
(* PaymentRequired, ResourceAccess or ResourceError the merchant returned   *)
(* for a forwarded ResourceRequest or PaymentProof, it sends that answer,   *)
(* and only it, to the client the forwarded message came from.              *)
C25_AnswersRoutedToOriginalClient ==
    [][(proxy'.awaiting # proxy.awaiting /\ proxy'.awaiting \subseteq proxy.awaiting)
          => proxy'.outbox
                = <<Send(proxy'.handled.answers.sender, proxy'.handled.msg)>>]_vars

-----------------------------------------------------------------------------
(* One run of handle_payment_proof for a proof that passed the checks of    *)
(* the payment id, the resource and the requester, on a Solana network,     *)
(* followed call by call: verifier counts the calls of send_raw_transaction,*)
(* get_signature_statuses and get_transaction that _verify_and_settle_solana*)
(* makes and keeps the answers of the last poll.  The step in which the     *)
(* verifier returns is also the rest of the handler: the record update, the *)
(* counters and the message sent.  ctx.storage.set and ctx.send are I/O and *)
(* may raise inside the handler's try block; the except branch then sends   *)
(* the ResourceError "Processing error".  ctx.storage.get returned the      *)
(* stored dictionary, so what the handler wrote into payment_data before    *)
(* the exception is in the store.                                           *)

VerifiedPayment == 1

VerifiedSender == "agent_a"

VerifiedResource == "premium_weather"

(* The I/O call of the branch taken that raises, if any: the first          *)
(* ctx.storage.set or the ctx.send of the answer.                           *)
Faults == {"none", "storage.set", "ctx.send"}

VerifierCalls ==
    [pc : {"called"}, sender : {VerifiedSender},
     proof : [payment_id : {VerifiedPayment}, resource_id : {VerifiedResource},
              transaction_hash : Transactions, network : SolanaNetworks],
     attempt : {0}, broadcasts : {0}, status_calls : {0}, detail_calls : {0},
     send_response : {"unread"}, last_status : {"unread"}, last_details : {"unread"},
     poll_exception : {FALSE}, result : {NoResultYet}, fault : {"none"}]

VerifierInit ==
    /\ storage = [p \in {VerifiedPayment} |->
                     NewPaymentRecord(VerifiedSender, VerifiedResource, 1)]
    /\ issued = {VerifiedPayment}
    /\ total_payments = 0
    /\ total_accesses = 0
    /\ task = NoTask
    /\ sent = PaymentRequiredMsg(VerifiedSender, VerifiedResource, VerifiedPayment)
    /\ accesses = [p \in PaymentIds |-> 0]
    /\ verifications = [p \in PaymentIds |-> IF p = VerifiedPayment THEN 1 ELSE 0]
    /\ nRequests = 1
    /\ nProofs = 1
    /\ signing = NoSigning
    /\ client = NoClient
    /\ proxy = NoProxy
    /\ verifier \in VerifierCalls

ProcessingError(sender, resource_id, payment_id) ==
    ResourceErrorMsg(sender, resource_id, payment_id, "Processing error",
                     <<"Error verifying payment: ", "exception">>)

(* handle_payment_proof from the return of verify_and_settle_payment on,    *)
(* with the except branch.                                                  *)
ConcludeOrRaise(sender, payment_id, resource_id, transaction_hash, result, fault) ==
    IF fault = "none"
    THEN Conclude(sender, payment_id, resource_id, transaction_hash, result)
    ELSE /\ storage' = [storage EXCEPT ![payment_id] =
                            IF Granted(result)
                            THEN CompletedRecord(@, transaction_hash, now)
                            ELSE FailedRecord(@, result)]
         /\ total_payments' = IF Granted(result) /\ fault = "ctx.send"
                              THEN total_payments + 1 ELSE total_payments
         /\ total_accesses' = IF Granted(result) /\ fault = "ctx.send"
                              THEN total_accesses + 1 ELSE total_accesses
         /\ sent' = ProcessingError(sender, resource_id, payment_id)
         /\ UNCHANGED accesses

(* _verify_and_settle_solana returns result, and the handler ends. *)
VerifierReturns(next, result, fault) ==
    /\ verifier' = [next EXCEPT !.pc = "returned", !.result = result,
                                !.fault = fault]
    /\ UNCHANGED <<issued, task, verifications, nRequests, nProofs, signing,
                   client, proxy>>
    /\ ConcludeOrRaise(verifier.sender, verifier.proof.payment_id,
                       verifier.proof.resource_id,
                       verifier.proof.transaction_hash, result, fault)

(* _verify_and_settle_solana goes on. *)
VerifierGoesOn(next) ==
    /\ verifier' = next
    /\ UNCHANGED <<storage, issued, total_payments, total_accesses, task, sent,
                   accesses, verifications, nRequests, nProofs, signing, client,
                   proxy>>

(* The network check, the decoding and send_raw_transaction. *)
VerifierBroadcast(send_response, fault) ==
    /\ verifier.pc = "called"
    /\ IF SolanaPrecheck(verifier.proof) # ""
       THEN VerifierReturns(verifier, Failure(SolanaPrecheck(verifier.proof)), fault)
       ELSE LET next == [verifier EXCEPT !.broadcasts = @ + 1,
                                         !.send_response = send_response]
            IN  IF BroadcastResult(send_response).done
                THEN VerifierReturns(next, BroadcastResult(send_response), fault)
                ELSE VerifierGoesOn([next EXCEPT !.pc = "polling"])

(* One pass of the body of the poll loop, up to the return or the sleep. *)
VerifierPoll(status, details, fault) ==
    /\ verifier.pc = "polling"
    /\ LET next == [verifier EXCEPT
                       !.status_calls = @ + 1,
                       !.detail_calls = IF status = "confirmed" THEN @ + 1 ELSE @,
                       !.last_status = status,
                       !.last_details = details,
                       !.poll_exception = @ \/ status = "exception"]
           result == PollOnce(status, details,
                              SignatureOf(verifier.proof.transaction_hash))
       IN  IF result.done
           THEN VerifierReturns(next, result, fault)
           ELSE VerifierGoesOn([next EXCEPT !.pc = "sleeping"])

(* asyncio.sleep(1) returns: the next attempt, or the end of the loop. *)
VerifierSleepReturns(fault) ==
    /\ verifier.pc = "sleeping"
    /\ IF verifier.attempt + 1 < max_attempts
       THEN VerifierGoesOn([verifier EXCEPT !.pc = "polling", !.attempt = @ + 1])
       ELSE VerifierReturns([verifier EXCEPT !.attempt = @ + 1],
                TimeoutResult(SignatureOf(verifier.proof.transaction_hash)), fault)

VerifierNext ==
    \/ \E send_response \in SendResponses, fault \in Faults :
          VerifierBroadcast(send_response, fault)
    \/ \E answer \in PollAnswers, fault \in Faults :
          VerifierPoll(answer[1], answer[2], fault)
    \/ \E fault \in Faults : VerifierSleepReturns(fault)

VerifierSpec == VerifierInit /\ [][VerifierNext]_vars

(* C26: the first poll at which get_signature_statuses reports the          *)
(* transaction confirmed with an error ends the verification in that step   *)
(* with the failure "Transaction failed on blockchain" for the signature:   *)
(* get_transaction is not called, no status is asked for afterwards, and    *)
(* the record is failed with that error; a poll that reports no status, or  *)
(* a status without a confirmation level, changes nothing and leads to the  *)
(* sleep before the next poll.                                              *)
C26_ChainFailureEndsPolling ==
    [][/\ verifier'.status_calls = verifier.status_calls + 1 =>
          /\ verifier'.last_status = "failed_on_chain" =>
                /\ verifier'.pc = "returned"
                /\ verifier'.result
                      = FailureWithSignature("Transaction failed on blockchain",
                            SignatureOf(verifier.proof.transaction_hash))
                /\ verifier'.detail_calls = verifier.detail_calls
                /\ storage'[VerifiedPayment].status = "failed"
                /\ storage'[VerifiedPayment].error = "Transaction failed on blockchain"
          /\ verifier'.last_status \in {"none", "unconfirmed"} =>
                /\ verifier'.pc = "sleeping"
                /\ verifier'.detail_calls = verifier.detail_calls
                /\ storage' = storage
                /\ sent' = sent
       /\ verifier.pc = "returned" =>
             /\ verifier'.status_calls = verifier.status_calls
             /\ verifier'.detail_calls = verifier.detail_calls
       /\ verifier.pc = "sleeping" /\ verifier.attempt + 1 < max_attempts
             => verifier'.pc \in {"sleeping", "polling"}]_vars

C26_Witness ==
    /\ verifier.pc = "returned"
    /\ verifier.last_status = "failed_on_chain"
    /\ verifier.status_calls = 3
    /\ verifier.detail_calls = 0
    /\ verifier.fault = "none"
    /\ storage[VerifiedPayment].status = "failed"
    /\ sent.type = "ResourceError"
    /\ sent.body.message = <<"Transaction failed on blockchain">>

(* C27: an exception of get_signature_statuses during a poll counts as no   *)
(* status for that attempt: the step returns no result, changes neither the *)
(* record nor the message sent, and leads to the sleep before the next      *)
(* attempt; a confirmation without error reported by a later poll returns   *)
(* success although an earlier poll raised.  An exception of                *)
(* send_raw_transaction, in contrast, ends the verification at once with a  *)
(* failure, before any status is asked for.                                 *)
C27_PollExceptionIsTransient ==
    [][/\ (/\ verifier'.status_calls = verifier.status_calls + 1
           /\ verifier'.last_status = "exception")
             => /\ verifier'.pc = "sleeping"
                /\ verifier'.result = NoResultYet
                /\ storage' = storage
                /\ sent' = sent
       /\ (/\ verifier'.pc = "returned"
           /\ verifier'.poll_exception
           /\ verifier'.last_status = "confirmed")
             => /\ Granted(verifier'.result)
                /\ verifier'.result
                      = Success(SignatureOf(verifier.proof.transaction_hash))
       /\ (/\ verifier'.broadcasts = verifier.broadcasts + 1
           /\ verifier'.send_response = "exception")
             => /\ verifier'.pc = "returned"
                /\ verifier'.result = Failure("Transaction broadcast failed")
                /\ verifier'.status_calls = 0]_vars

C27_Witness ==
    /\ verifier.pc = "returned"
    /\ verifier.poll_exception
    /\ verifier.last_status = "confirmed"
    /\ verifier.status_calls = 2
    /\ verifier.fault = "none"
    /\ verifier.result.success
    /\ storage[VerifiedPayment].status = "completed"
    /\ sent.type = "ResourceAccess"

(* C28: every PaymentRequired the provider sends is backed by a stored      *)
(* pending record: in the step that handles a ResourceRequest and sends a   *)
(* PaymentRequired, the payment_id of the message is the key of a record    *)
(* with status pending whose resource_id is the requested resource and      *)
(* whose requester is the address the message is sent to, which is the      *)
(* sender of the request; the pay-to address and the network of the message *)
(* are the provider's configured ones.                                      *)
C28_PaymentRequiredBackedByRecord ==
    [][nRequests' = nRequests + 1 =>
          \A sender \in Agents, resource_id \in ResourceIds :
             (HandleResourceRequest(sender, resource_id)
                 /\ sent'.type = "PaymentRequired")
                => /\ sent'.payment_id \in DOMAIN storage'
                   /\ sent'.payment_id \notin DOMAIN storage
                   /\ storage'[sent'.payment_id].status = "pending"
                   /\ storage'[sent'.payment_id].resource_id = resource_id
                   /\ storage'[sent'.payment_id].requester = sent'.to
                   /\ sent'.to = sender
                   /\ sent'.resource_id = resource_id
                   /\ sent'.body.pay_to_address = merchant_address
                   /\ sent'.body.network = network]_vars

C28_Witness ==
    /\ nRequests = 2
    /\ sent.type = "PaymentRequired"
    /\ sent.to = "agent_b"
    /\ sent.resource_id = "premium_data"
    /\ sent.payment_id = 2
    /\ storage[2].status = "pending"
    /\ storage[2].requester = "agent_b"
    /\ storage[2].resource_id = "premium_data"
    /\ sent.body.pay_to_address = merchant_address

(* C29: once get_signature_statuses reports the transaction confirmed       *)
(* without error, the verification returns success with the signature of    *)
(* the transaction attached, whether get_transaction then returns the       *)
(* details or raises; with no failure of the handler's own I/O the record   *)
(* is completed and the ResourceAccess is sent.                             *)
C29_ConfirmedIsSuccessWithoutDetails ==
    (verifier.pc = "returned" /\ verifier.last_status = "confirmed")
       => /\ verifier.result.success
          /\ verifier.result.verified
          /\ verifier.result.transaction_signature
                = SignatureOf(verifier.proof.transaction_hash)
          /\ verifier.detail_calls = 1
          /\ verifier.fault = "none"
                => /\ storage[VerifiedPayment].status = "completed"
                   /\ sent.type = "ResourceAccess"

C29_Witness ==
    /\ verifier.pc = "returned"
    /\ verifier.last_status = "confirmed"
    /\ verifier.last_details = "exception"
    /\ verifier.fault = "none"
    /\ verifier.result = Success(SignatureOf("tx1"))
    /\ storage[VerifiedPayment].status = "completed"
    /\ sent.type = "ResourceAccess"

(* C30: whenever the handler of a proof that passed the checks of the       *)
(* payment id, the resource and the requester has sent a ResourceError, the *)
(* record of the payment is failed, also when the ResourceError is the      *)
(* "Processing error" of an exception inside the handler.                   *)
C30_ErrorMeansFailedRecord ==
    (verifier.pc = "returned" /\ sent.type = "ResourceError")
       => storage[VerifiedPayment].status = "failed"

(***************************************************************************)
(* Protocol order on the provider (merchant.py, handle_resource_request    *)
(* and handle_payment_proof)                                               *)
(***************************************************************************)

(* C31: a ResourceAccess for a payment id is sent only after a             *)
(* PaymentRequired with that payment id was sent (the id was issued and    *)
(* its record written by the handler that sent the PaymentRequired) and    *)
(* after a PaymentProof for that id was accepted for verification from the *)
(* address the PaymentRequired went to, which is also where the            *)
(* ResourceAccess goes.                                                    *)
C31_AccessAfterRequiredAndProof ==
    [][\A p \in PaymentIds :
          accesses'[p] > accesses[p]
             => /\ p \in issued
                /\ p \in DOMAIN storage
                /\ verifications'[p] > 0
                /\ sent'.type = "ResourceAccess"
                /\ sent'.payment_id = p
                /\ sent'.to = storage[p].requester
                /\ \/ task # NoTask /\ task.payment_id = p
                         /\ task.sender = storage[p].requester
                   \/ task = NoTask /\ verifications'[p] = verifications[p] + 1]_vars

C31_Witness ==
    /\ sent.type = "ResourceAccess"
    /\ sent.payment_id = 2
    /\ accesses[2] = 1
    /\ verifications[2] = 1
    /\ accesses[1] = 0
    /\ sent.to = storage[2].requester
    /\ storage[1].requester # storage[2].requester

(***************************************************************************)
(* The provider's counters (merchant.py lines 732-736, periodic_status)    *)
(***************************************************************************)

RECURSIVE SumOver(_, _)
SumOver(f, S) ==
    IF S = {} THEN 0
    ELSE LET p == CHOOSE q \in S : TRUE IN f[p] + SumOver(f, S \ {p})

AccessesSent == SumOver(accesses, PaymentIds)

RequestsSent(c) == {i \in DOMAIN c.outbox : c.outbox[i].type = "ResourceRequest"}

Sends(type) ==
    /\ Len(client'.outbox) = Len(client.outbox) + 1
    /\ client'.outbox[Len(client'.outbox)].type = type

(* C32: the tick sends a ResourceRequest only when no resource has been     *)
(* received, no payment is pending and the request counter is 0; and when   *)
(* it sends one after an earlier ResourceRequest, a ResourceError was       *)
(* received in between.                                                     *)
C32_OneAttemptOutstanding ==
    [][Sends("ResourceRequest")
          => /\ ~client.resource_received
             /\ client.pending_payment = NoPayment
             /\ client.request_count = 0
             /\ RequestsSent(client) # {} => client.error_since_request]_vars

C32_Witness ==
    /\ Cardinality(RequestsSent(client)) = 2
    /\ client.handled.type = "ResourceError"
    /\ client.request_count = 1
    /\ ~client.error_since_request

(* C33: once a successful ResourceAccess with resource data has been        *)
(* received, no message leaves the client any more, whatever arrives.       *)
C33_NothingSentAfterResourceReceived ==
    [][client.resource_received => client'.outbox = client.outbox]_vars

AbortedLocally(c) ==
    /\ ~c.attempt.success
    /\ c.attempt # BuilderFailure("")

(* C35: after the client aborted the handling of a PaymentRequired locally, *)
(* its pending payment stays set and nothing is sent any more.              *)
C35_AbortLeavesClientStuck ==
    [][AbortedLocally(client)
          => /\ client.pending_payment # NoPayment
             /\ client'.pending_payment # NoPayment
             /\ client'.outbox = client.outbox]_vars

(***************************************************************************)
(* The proxy's health checks and the routing of the answers to a           *)
(* PaymentProof (agentverse-proxy.py)                                      *)
(***************************************************************************)

HealthCheckSent(p) ==
    \E i \in 1..Len(p.outbox) :
       p.outbox[i] = Send(p.local_merchant_address, [type |-> "HealthCheckRequest"])

(* C36: the proxy checks the merchant's health periodically too: after the  *)
(* health check has passed, a run of its periodic handler sends a           *)
(* HealthCheckRequest to the local merchant and awaits the answer, which is *)
(* how a merchant that stopped answering would be noticed.                  *)
C36_PeriodicHealthCheck ==
    [][(/\ proxy.health_check_passed
        /\ proxy.health_response_received
        /\ proxy'.handled = PeriodicStatusRun
        /\ proxy.handled # PeriodicStatusRun)
          => /\ HealthCheckSent(proxy')
             /\ proxy'.awaiting_health_response]_vars

AnswerToProof ==
    /\ proxy'.awaiting # proxy.awaiting
    /\ proxy'.awaiting \subseteq proxy.awaiting
    /\ proxy'.handled.msg.type \in {"ResourceAccess", "ResourceError"}

(* C37: a ResourceAccess or ResourceError is forwarded only to the sender   *)
(* of the most recent PaymentProof the proxy forwarded for its payment id,  *)
(* at most once per forwarded proof; the routing entry is gone afterwards,  *)
(* and without a routing entry or a payment id nothing is forwarded.        *)
C37_ProofAnswersRoutedOnce ==
    [][AnswerToProof =>
          LET msg == proxy'.handled.msg
              p == msg.payment_id
          IN /\ (p = NoPayment \/ Get(proxy.routes, PaymentKey(p)) = "")
                   => proxy'.outbox = <<>>
             /\ proxy'.outbox # <<>>
                   => /\ p # NoPayment
                      /\ proxy.last_proof[p] # ""
                      /\ proxy'.outbox = <<Send(proxy.last_proof[p], msg)>>
                      /\ Get(proxy'.routes, PaymentKey(p)) = ""]_vars

====
